---- MODULE Spec2Model ----
(***************************************************************************)
(* A model of the scraper service (src/scraper-service/main.py): the two   *)
(* request handlers discover_links and scrape_content and the helpers      *)
(* matches_pattern, extract_links_by_selectors and apply_link_filters.     *)
(*                                                                         *)
(* Strings are sequences of tokens.  A token stands for one character of   *)
(* text (a letter, a blank) or for one lexeme of a URL or of markup (a     *)
(* scheme, "//", a host, "/", a path segment, "<", a tag name, ">").  Len  *)
(* is the length of a string, equality of sequences is equality of         *)
(* strings.                                                                *)
(***************************************************************************)
EXTENDS Naturals, Integers, Sequences, FiniteSets, TLC

VARIABLES pc, req, crawl, resp, events

vars == <<pc, req, crawl, resp, events>>

\* ------------------------------------------------------------------------
\* Bounds of the model and constants of the program
\* ------------------------------------------------------------------------

\* Lengths of the generated article bodies are taken around the program's
\* thresholds, up to MaxPad characters above each.
MaxPad == 1

\* Field defaults and validation limits of the request models.
DefaultMinTextLength == 0
DefaultMaxLinks == 100
DefaultMinContentLength == 200
DefaultMaxContentLength == 40000
MinMaxContentLength == 100
ContextLimit == 200

\* Optional[int] = None.
NoneInt == -1

\* Python's "x or d" on an Optional[int]: None and 0 are falsy.
OrInt(x, d) == IF x = NoneInt \/ x = 0 THEN d ELSE x

\* A loop is modelled as a fold over the halves of its range.  Its state
\* so far, a record, is a value before the loop goes on.
Computed(acc) == DOMAIN acc # {}

\* ------------------------------------------------------------------------
\* Strings
\* ------------------------------------------------------------------------

Min(a, b) == IF a < b THEN a ELSE b

\* s[:n]
Take(s, n) == SubSeq(s, 1, Min(n, Len(s)))

\* n copies of the character c
Rep(c, n) == [i \in 1..n |-> c]

Whitespace == {" ", "\n"}

\* str.lower() / re.IGNORECASE on the letters the fixtures use
Lower(c) ==
    CASE c = "B" -> "b"
      [] c = "S" -> "s"
      [] c = "O" -> "o"
      [] c = "A" -> "a"
      [] c = "Article" -> "article"
      [] c = "ARTICLE" -> "article"
      [] OTHER -> c

LowerStr(s) == [i \in 1..Len(s) |-> Lower(s[i])]

\* str.strip(): drop leading and trailing whitespace
FirstInk(s) ==
    CHOOSE i \in 1..Len(s) :
        s[i] \notin Whitespace /\ \A j \in 1..(i - 1) : s[j] \in Whitespace
LastInk(s) ==
    CHOOSE i \in 1..Len(s) :
        s[i] \notin Whitespace /\ \A j \in (i + 1)..Len(s) : s[j] \in Whitespace
Strip(s) ==
    IF \A i \in 1..Len(s) : s[i] \in Whitespace THEN <<>>
    ELSE SubSeq(s, FirstInk(s), LastInk(s))

\* The characters of t[lo..hi] that ' '.join(t.split()) keeps, for a stripped
\* t: every character but a blank that follows a blank; a kept blank is " ".
RECURSIVE Collapse(_, _, _)
Collapse(t, lo, hi) ==
    IF lo > hi THEN <<>>
    ELSE IF lo = hi
    THEN (IF t[lo] \notin Whitespace THEN <<t[lo]>>
          ELSE IF t[lo - 1] \notin Whitespace THEN <<" ">> ELSE <<>>)
    ELSE LET mid == (lo + hi) \div 2
         IN  Collapse(t, lo, mid) \o Collapse(t, mid + 1, hi)

\* ' '.join(s.split()): runs of whitespace collapse to one blank, ends trimmed
CollapseAll(t) == Collapse(t, 1, Len(t))
NormalizeWhitespace(s) == CollapseAll(Strip(s))

\* p occurs in s as a contiguous substring
Contains(s, p) ==
    \E i \in 1..(Len(s) - Len(p) + 1) : SubSeq(s, i, i + Len(p) - 1) = p

\* ------------------------------------------------------------------------
\* re and urllib.parse
\* ------------------------------------------------------------------------

\* A pattern that re.compile rejects (an unbalanced parenthesis).
BadPattern == <<"(">>

\* re.search(pattern, text, re.IGNORECASE) for a literal pattern:
\* "error" when the pattern does not compile.
re_search(pattern, text) ==
    IF pattern = BadPattern THEN "error"
    ELSE IF Contains(LowerStr(text), LowerStr(pattern)) THEN "true" ELSE "false"

\* str.split('/') of a path: its segments, "" for an empty one
RECURSIVE SplitSlash(_)
SplitSlash(t) ==
    IF t = <<>> THEN <<"">>
    ELSE IF Head(t) = "/" THEN <<"">> \o SplitSlash(Tail(t))
    ELSE IF Len(t) = 1 THEN <<Head(t)>>
    ELSE <<Head(t)>> \o SplitSlash(Tail(Tail(t)))

\* '/'.join(segments)
RECURSIVE JoinSlash(_)
JoinSlash(segs) ==
    IF segs = <<>> THEN <<>>
    ELSE LET h == IF Head(segs) = "" THEN <<>> ELSE <<Head(segs)>>
         IN  IF Len(segs) = 1 THEN h ELSE h \o <<"/">> \o JoinSlash(Tail(segs))

\* urlparse(url): scheme, netloc and path
HasScheme(url) == Len(url) >= 2 /\ url[2] = ":" /\ url[1] \notin {"/", "//"}

\* The netloc and the path of what follows the scheme
SplitNetloc(scheme, rest) ==
    IF rest # <<>> /\ rest[1] = "//"
    THEN (IF Len(rest) >= 2 /\ rest[2] # "/"
          THEN [scheme |-> scheme, netloc |-> <<rest[2]>>,
                path |-> SubSeq(rest, 3, Len(rest))]
          ELSE [scheme |-> scheme, netloc |-> <<>>,
                path |-> SubSeq(rest, 2, Len(rest))])
    ELSE [scheme |-> scheme, netloc |-> <<>>, path |-> rest]

urlparse(url) ==
    IF HasScheme(url) THEN SplitNetloc(Lower(url[1]), SubSeq(url, 3, Len(url)))
    ELSE SplitNetloc("", url)

UsesRelative == {"", "http", "https", "ftp"}
UsesNetloc == {"", "http", "https", "ftp"}

\* urlunparse((scheme, netloc, path, '', '', ''))
WithScheme(scheme, rest) == IF scheme # "" THEN <<scheme, ":">> \o rest ELSE rest

urlunparse(scheme, netloc, path) ==
    WithScheme(scheme,
        IF netloc # <<>> \/ (scheme # "" /\ scheme \in UsesNetloc
                             /\ (path = <<>> \/ path[1] # "//"))
        THEN <<"//">> \o netloc
             \o (IF path # <<>> /\ path[1] # "/" THEN <<"/">> ELSE <<>>) \o path
        ELSE path)

\* The dot-segment loop of urljoin: ".." pops (and is ignored on an empty
\* list), "." is skipped.
RECURSIVE ResolveDots(_, _)
ResolveDots(segments, resolved) ==
    IF segments = <<>> THEN resolved
    ELSE LET seg == Head(segments)
         IN  ResolveDots(Tail(segments),
                 IF seg = ".."
                 THEN (IF resolved = <<>> THEN resolved
                       ELSE SubSeq(resolved, 1, Len(resolved) - 1))
                 ELSE IF seg = "." THEN resolved
                 ELSE Append(resolved, seg))

\* segments[1:-1] = filter(None, segments[1:-1])
DropInnerEmpty(segments) ==
    IF Len(segments) <= 2 THEN segments
    ELSE <<segments[1]>>
         \o SelectSeq(SubSeq(segments, 2, Len(segments) - 1), LAMBDA x : x # "")
         \o <<segments[Len(segments)]>>

\* base_parts of urljoin: the segments of the base path without its last
\* one, unless that is empty
BaseParts(parts) ==
    IF parts[Len(parts)] # "" THEN SubSeq(parts, 1, Len(parts) - 1) ELSE parts

\* The segments urljoin resolves: those of a rooted path, or those of the
\* path appended to the base's
JoinSegments(bpath, path) ==
    IF path[1] = "/" THEN SplitSlash(path)
    ELSE DropInnerEmpty(BaseParts(SplitSlash(bpath)) \o SplitSlash(path))

ResolvedPath(segments) ==
    JoinSlash(IF segments[Len(segments)] \in {".", ".."}
              THEN Append(ResolveDots(segments, <<>>), "")
              ELSE ResolveDots(segments, <<>>))

OrRoot(path) == IF path = <<>> THEN <<"/">> ELSE path

\* urljoin on the parsed base b and the parsed url u
JoinParsed(base, url, b, u, scheme) ==
    IF scheme # b.scheme \/ scheme \notin UsesRelative THEN url
    ELSE IF scheme \in UsesNetloc /\ u.netloc # <<>>
         THEN urlunparse(scheme, u.netloc, u.path)
    ELSE IF u.path = <<>> THEN urlunparse(scheme, b.netloc, b.path)
    ELSE urlunparse(scheme, b.netloc,
                    OrRoot(ResolvedPath(JoinSegments(b.path, u.path))))

SchemeOr(u, b) == IF u.scheme = "" THEN b.scheme ELSE u.scheme

JoinWith(base, url, b, u) == JoinParsed(base, url, b, u, SchemeOr(u, b))

\* urljoin(base, url)
urljoin(base, url) ==
    IF base = <<>> THEN url
    ELSE IF url = <<>> THEN base
    ELSE JoinWith(base, url, urlparse(base), urlparse(url))

\* str.startswith('http'), on the first token of the string
HttpPrefixed == {"http", "https", "httpdocs"}
StartsWithHttp(s) == s # <<>> /\ s[1] \in HttpPrefixed

\* `x or d` on an Optional[str]: None and '' are falsy.
NoneStr == "<None>"
OrStr(x, d) == IF x = NoneStr \/ x = "" THEN d ELSE x

\* ------------------------------------------------------------------------
\* bs4: the parsed document and its queries
\* ------------------------------------------------------------------------
\* A document is the sequence of its elements in document order.  An
\* element has a tag name, a class, the index of its parent (0: the
\* document itself), the text it holds directly (before its children) and
\* its attributes.  A soup is a document and the set of elements that
\* decompose() has destroyed.

Node(tag, cls, parent, text, attrs) ==
    [tag |-> tag, cls |-> cls, parent |-> parent, text |-> text, attrs |-> attrs]

NoAttrs == [x \in {} |-> <<>>]

BeautifulSoup(dom) == [nodes |-> dom, gone |-> {}]

RECURSIVE Ancestors(_, _)
Ancestors(nodes, i) ==
    IF nodes[i].parent = 0 THEN {}
    ELSE {nodes[i].parent} \cup Ancestors(nodes, nodes[i].parent)

\* The live elements of the subtree of element i (i = 0: the whole document)
Subtree(soup, i) ==
    {j \in 1..Len(soup.nodes) :
        /\ j \notin soup.gone
        /\ i = 0 \/ j = i \/ i \in Ancestors(soup.nodes, j)}

\* The elements of S within lo..hi, in document order
RECURSIVE Ordered(_, _, _)
Ordered(S, lo, hi) ==
    IF lo > hi THEN <<>>
    ELSE IF lo = hi THEN (IF lo \in S THEN <<lo>> ELSE <<>>)
    ELSE LET mid == (lo + hi) \div 2
         IN  Ordered(S, lo, mid) \o Ordered(S, mid + 1, hi)

InOrder(S, n) == Ordered(S, 1, n)

\* The stripped text nodes of the elements of S within lo..hi, concatenated
RECURSIVE TextOf(_, _, _, _)
TextOf(nodes, S, lo, hi) ==
    IF lo > hi THEN <<>>
    ELSE IF lo = hi THEN (IF lo \in S THEN Strip(nodes[lo].text) ELSE <<>>)
    ELSE LET mid == (lo + hi) \div 2
         IN  TextOf(nodes, S, lo, mid) \o TextOf(nodes, S, mid + 1, hi)

\* element.get_text(strip=True): the stripped text nodes, concatenated
get_text(soup, i) ==
    TextOf(soup.nodes, Subtree(soup, i), 1, Len(soup.nodes))

HasAttr(node, name) == name \in DOMAIN node.attrs

\* The attributes of a start tag, in the order class, href, name, property,
\* content
AttrMarkup(n) ==
    LET one(name) == IF HasAttr(n, name)
                     THEN <<" ", name, "=", "'">> \o n.attrs[name] \o <<"'">>
                     ELSE <<>>
    IN  (IF n.cls # "" THEN <<" ", "class", "=", "'", n.cls, "'">> ELSE <<>>)
        \o one("href") \o one("name") \o one("property") \o one("content")

\* str(element): the element's markup; the markup of the live children of
\* element i (0: the document) among lo..hi
RECURSIVE Serialize(_, _)
RECURSIVE SerializeKids(_, _, _, _)
Serialize(soup, i) ==
    LET n == soup.nodes[i]
    IN  IF n.tag = "meta" THEN <<"<", n.tag>> \o AttrMarkup(n) \o <<"/", ">">>
        ELSE <<"<", n.tag>> \o AttrMarkup(n) \o <<">">> \o n.text
             \o SerializeKids(soup, i, i + 1, Len(soup.nodes))
             \o <<"<", "/", n.tag, ">">>
SerializeKids(soup, i, lo, hi) ==
    IF lo > hi THEN <<>>
    ELSE IF lo = hi
    THEN (IF lo \notin soup.gone /\ soup.nodes[lo].parent = i
          THEN Serialize(soup, lo) ELSE <<>>)
    ELSE LET mid == (lo + hi) \div 2
         IN  SerializeKids(soup, i, lo, mid) \o SerializeKids(soup, i, mid + 1, hi)

\* crawl_result.html: the markup of the document as fetched
page_html(dom) == SerializeKids(BeautifulSoup(dom), 0, 1, Len(dom))

\* A CSS selector is a string: "tag", ".class", "tag.class" or "tag tag"
\* (descendant).  Anything else is a syntax error of the selector engine.
CssParse(sel) ==
    IF Len(sel) = 1 /\ sel[1] \notin {"[", ".", " "}
    THEN [ok |-> TRUE, anc |-> "", tag |-> sel[1], cls |-> ""]
    ELSE IF Len(sel) = 2 /\ sel[1] = "."
    THEN [ok |-> TRUE, anc |-> "", tag |-> "", cls |-> sel[2]]
    ELSE IF Len(sel) = 3 /\ sel[2] = "."
    THEN [ok |-> TRUE, anc |-> "", tag |-> sel[1], cls |-> sel[3]]
    ELSE IF Len(sel) = 3 /\ sel[2] = " "
    THEN [ok |-> TRUE, anc |-> sel[1], tag |-> sel[3], cls |-> ""]
    ELSE [ok |-> FALSE, anc |-> "", tag |-> "", cls |-> ""]

BadSelector == <<"[">>

\* Whether element j matches the parsed selector c
CssHit(soup, c, j) ==
    /\ c.tag = "" \/ soup.nodes[j].tag = c.tag
    /\ c.cls = "" \/ soup.nodes[j].cls = c.cls
    /\ c.anc = "" \/ \E a \in Ancestors(soup.nodes, j) : soup.nodes[a].tag = c.anc

SelectParsed(soup, c) ==
    IF ~c.ok THEN [err |-> "SelectorSyntaxError", nodes |-> <<>>]
    ELSE [err |-> "",
          nodes |-> InOrder({j \in Subtree(soup, 0) : CssHit(soup, c, j)},
                            Len(soup.nodes))]

\* soup.select(selector): the matching live elements in document order,
\* or the engine's syntax error
select(soup, sel) == SelectParsed(soup, CssParse(sel))

\* soup.select_one(selector): the first match, 0 for None
FirstOf(r) == [err |-> r.err, node |-> IF r.nodes = <<>> THEN 0 ELSE r.nodes[1]]
select_one(soup, sel) == FirstOf(select(soup, sel))

\* The first element of a set in document order, 0 for None
FirstIn(S) == IF S = {} THEN 0 ELSE CHOOSE x \in S : \A y \in S : x <= y

\* soup.find(tag): the first live element with the tag, 0 for None
find(soup, tag) == FirstIn({j \in Subtree(soup, 0) : soup.nodes[j].tag = tag})

\* soup.find('meta', property=p) and soup.find('meta', attrs={'name': p})
find_meta(soup, attr, p) ==
    FirstIn({j \in Subtree(soup, 0) :
                /\ soup.nodes[j].tag = "meta"
                /\ HasAttr(soup.nodes[j], attr)
                /\ soup.nodes[j].attrs[attr] = p})

\* soup.find_all('a', href=True)
find_all_a_href(soup) ==
    InOrder({j \in Subtree(soup, 0) :
                soup.nodes[j].tag = "a" /\ HasAttr(soup.nodes[j], "href")},
            Len(soup.nodes))

\* ------------------------------------------------------------------------
\* Helper functions of the service
\* ------------------------------------------------------------------------

\* any(re.search(pattern, text, re.IGNORECASE) for pattern in patterns):
\* the patterns are tried in order up to the first match; one that does
\* not compile raises when it is reached.
RECURSIVE AnySearch(_, _)
OrElse(r, rest) == IF r = "false" THEN rest ELSE r
AnySearch(text, patterns) ==
    IF patterns = <<>> THEN "false"
    ELSE OrElse(re_search(Head(patterns), text), AnySearch(text, Tail(patterns)))

matches_pattern(text, patterns) ==
    IF patterns = <<>> THEN "true" ELSE AnySearch(text, patterns)

\* The elements extract_links_by_selectors walks: the matches of each CSS
\* selector in turn, or every <a href> of the document.
RECURSIVE SelectAll(_, _)
Extend(r, rest) ==
    IF r.err # "" THEN r
    ELSE IF rest.err # "" THEN rest
    ELSE [err |-> "", nodes |-> r.nodes \o rest.nodes]
SelectAll(soup, css) ==
    IF css = <<>> THEN [err |-> "", nodes |-> <<>>]
    ELSE Extend(select(soup, Head(css)), SelectAll(soup, Tail(css)))

LinkElements(soup, selectors) ==
    IF ~selectors.none /\ selectors.css # <<>>
    THEN SelectAll(soup, selectors.css)
    ELSE [err |-> "", nodes |-> find_all_a_href(soup)]

\* Make absolute URL
resolve(href, base_url) ==
    IF ~StartsWithHttp(href) THEN urljoin(base_url, href) ELSE href

\* AddLink without the test of the seen set
AddLinkAlways(soup, e, href, acc) ==
    [links |-> Append(acc.links,
                  [url |-> href, text |-> get_text(soup, e), element |-> e]),
     seen |-> acc.seen \cup {href}]

\* Skip duplicates, else record the link
AddLink(soup, e, href, acc) ==
    IF href \in acc.seen THEN acc
    ELSE [links |-> Append(acc.links,
                       [url |-> href, text |-> get_text(soup, e), element |-> e]),
          seen |-> acc.seen \cup {href}]

\* The body of the loop of extract_links_by_selectors for element e, on
\* the links and the seen set so far
ExtractStep(soup, e, base_url, acc) ==
    IF ~HasAttr(soup.nodes[e], "href") \/ soup.nodes[e].attrs.href = <<>> THEN acc
    ELSE AddLink(soup, e, resolve(soup.nodes[e].attrs.href, base_url), acc)

\* The loop over elements[lo..hi], in order: the links and the seen set
\* after the first half are values before the second half is entered.
RECURSIVE ExtractLoop(_, _, _, _, _, _)
ExtractRest(soup, elements, base_url, lo, hi, a) ==
    IF Computed(a) THEN ExtractLoop(soup, elements, base_url, lo, hi, a) ELSE a
ExtractLoop(soup, elements, base_url, lo, hi, acc) ==
    IF lo > hi THEN acc
    ELSE IF lo = hi THEN ExtractStep(soup, elements[lo], base_url, acc)
    ELSE ExtractRest(soup, elements, base_url, (lo + hi) \div 2 + 1, hi,
             ExtractLoop(soup, elements, base_url, lo, (lo + hi) \div 2, acc))

ExtractFrom(soup, els, base_url) ==
    IF els.err # "" THEN [err |-> els.err, links |-> <<>>]
    ELSE [err |-> "",
          links |-> ExtractLoop(soup, els.nodes, base_url, 1, Len(els.nodes),
                                [links |-> <<>>, seen |-> {}]).links]

extract_links_by_selectors(soup, selectors, base_url) ==
    ExtractFrom(soup, LinkElements(soup, selectors), base_url)

\* LinkFilters(): the defaults of the model's fields
DefaultFilters ==
    [none |-> FALSE, minTextLength |-> DefaultMinTextLength,
     maxLinks |-> DefaultMaxLinks, excludePatterns |-> <<>>,
     includeExternal |-> FALSE]

\* The rules of the loop of apply_link_filters, each "pass", "reject" or
\* "error" (a pattern that does not compile)
Must(m) == IF m = "true" THEN "pass" ELSE IF m = "error" THEN "error" ELSE "reject"
MustNot(m) == IF m = "false" THEN "pass" ELSE IF m = "error" THEN "error" ELSE "reject"

TextLengthRule(link, filters) ==
    IF Len(link.text) < OrInt(filters.minTextLength, 0) THEN "reject" ELSE "pass"

UrlPatternRule(link, selectors) ==
    IF ~selectors.none /\ selectors.urlPatterns # <<>>
    THEN Must(matches_pattern(link.url, selectors.urlPatterns)) ELSE "pass"

TextPatternRule(link, selectors) ==
    IF ~selectors.none /\ selectors.textPatterns # <<>>
    THEN Must(matches_pattern(link.text, selectors.textPatterns)) ELSE "pass"

ExcludeRule(link, filters) ==
    IF filters.excludePatterns # <<>>
    THEN MustNot(matches_pattern(link.url, filters.excludePatterns)) ELSE "pass"

\* ExternalRule without the comparison of the domains
ExternalRuleOff(link, filters, base_domain) == "pass"

ExternalRule(link, filters, base_domain) ==
    IF ~filters.includeExternal /\ urlparse(link.url).netloc # base_domain
    THEN "reject" ELSE "pass"

\* A rule, and the rest only if it passes
AndThen(r, rest) == IF r = "pass" THEN rest ELSE r

\* FilterLink with the URL patterns tried before the text length
FilterLinkPatternsFirst(link, filters, selectors, base_domain) ==
    AndThen(UrlPatternRule(link, selectors),
    AndThen(TextLengthRule(link, filters),
    AndThen(TextPatternRule(link, selectors),
    AndThen(ExcludeRule(link, filters),
            ExternalRule(link, filters, base_domain)))))

\* The body of the loop for one link, up to the append: the first rule in
\* the order of the code that does not pass, else "pass"
FilterLink(link, filters, selectors, base_domain) ==
    AndThen(TextLengthRule(link, filters),
    AndThen(UrlPatternRule(link, selectors),
    AndThen(TextPatternRule(link, selectors),
    AndThen(ExcludeRule(link, filters),
            ExternalRule(link, filters, base_domain)))))

\* CapReached one link late
CapReachedLate(filtered, filters) ==
    Len(filtered) > OrInt(filters.maxLinks, DefaultMaxLinks)

\* The loop stops once this holds of the accepted links
CapReached(filtered, filters) ==
    Len(filtered) >= OrInt(filters.maxLinks, DefaultMaxLinks)

\* filtered.append(link), then the check of the cap
Accept(link, i, filters, filtered) ==
    [err |-> "", filtered |-> filtered, evaluated |-> i,
     ended |-> CapReached(filtered, filters)]

\* One turn of the loop of apply_link_filters, for link i with verdict v:
\* nothing once the loop has ended (break, or an exception); evaluated
\* counts the links the loop body ran for.
Decide(v, links, i, filters, acc) ==
    IF v = "error"
    THEN [err |-> "re.error", filtered |-> <<>>, evaluated |-> i, ended |-> TRUE]
    ELSE IF v = "reject" THEN [acc EXCEPT !.evaluated = i]
    ELSE Accept(links[i], i, filters, Append(acc.filtered, links[i]))

FilterStep(links, i, filters, selectors, base_domain, acc) ==
    IF acc.ended THEN acc
    ELSE Decide(FilterLink(links[i], filters, selectors, base_domain),
                links, i, filters, acc)

\* The loop over links[lo..hi], in order
RECURSIVE FilterLoop(_, _, _, _, _, _, _)
FilterRest(links, lo, hi, filters, selectors, base_domain, a) ==
    IF a.ended THEN a
    ELSE FilterLoop(links, lo, hi, filters, selectors, base_domain, a)
FilterLoop(links, lo, hi, filters, selectors, base_domain, acc) ==
    IF lo > hi THEN acc
    ELSE IF lo = hi
    THEN FilterStep(links, lo, filters, selectors, base_domain, acc)
    ELSE FilterRest(links, (lo + hi) \div 2 + 1, hi, filters, selectors, base_domain,
             FilterLoop(links, lo, (lo + hi) \div 2, filters, selectors,
                        base_domain, acc))

apply_link_filters(links, filters, selectors, base_url) ==
    FilterLoop(links, 1, Len(links),
               IF filters.none THEN DefaultFilters ELSE filters,
               selectors, urlparse(base_url).netloc,
               [err |-> "", filtered |-> <<>>, evaluated |-> 0, ended |-> FALSE])

\* ------------------------------------------------------------------------
\* Fixtures: URLs and the pages served at them
\* ------------------------------------------------------------------------

Url(host, path) == <<"https", ":", "//", host>> \o path

NewsUrl == Url("news.example", <<"/", "section">>)
OtherUrl == Url("other.example", <<"/", "a", "/", "b">>)
ArchiveUrl == Url("news.example", <<"/", "archive", "/">>)
ArticleUrl(variant, n) ==
    Url("news.example", <<"/", "article", "/", variant, "/", ToString(n)>>)

A(cls, parent, text, href) == Node("a", cls, parent, text, [href |-> href])

\* A section front: a navigation block and an article with links of every
\* kind (rooted, absolute, relative, protocol-relative, repeated, empty,
\* missing, scheme-less with an http prefix, mailto).
NewsPage ==
    << Node("nav", "", 0, <<>>, NoAttrs),
       A("", 1, <<"A", "b", "o", "u", "t">>, <<"/", "about">>),
       Node("article", "", 0, <<" ">>, NoAttrs),
       A("post-link", 3, <<"B", "i", "g", " ", "S", "t", "o", "r", "y">>,
         <<"/", "article", "/", "42">>),
       A("", 3, <<"O", "t", "h", "e", "r">>,
         Url("other.example", <<"/", "article", "/", "1">>)),
       A("", 3, <<"m", "o", "r", "e">>, <<"/", "article", "/", "42">>),
       A("", 3, <<"e">>, <<>>),
       Node("a", "", 3, <<"n", "o">>, NoAttrs),
       A("post-link", 3, <<" ">>, <<"Article", "/", "7">>),
       A("", 3, <<"d", "o", "c", "s">>, <<"httpdocs", "/", "x">>),
       Node("span", "post-link", 3, <<"s">>, NoAttrs),
       A("", 3, <<"o", "t", "h", "e", "r", "2">>,
         <<"//", "other.example", "/", "article", "/", "1">>),
       A("", 3, <<"m", "a", "i", "l">>, <<"mailto", ":", "desk">>),
       A("post-link", 3, <<"u", "p">>, <<"..", "/", "b">>) >>

\* A page of n links to distinct pages of the site
ManyLinksPage(n) ==
    [i \in 1..n |-> A("", 0, <<>>, <<"/", "p", "/", ToString(i)>>)]

EmptyPage == <<>>

\* An article body of n characters once its whitespace is collapsed
Body(n) ==
    IF n < 3 THEN Rep("x", n) ELSE <<"x", " ", "\n">> \o Rep("x", n - 2)

\* An article page with a body of n characters.  Variants: "full" (title,
\* og:title, h1 with text), "emptyh1" (the h1 is blank), "blank" (h1 and
\* title blank, og:title without content), "bare" (no title element at all).
ArticlePage(variant, n) ==
    LET bare == variant = "bare"
        blank == variant = "blank"
    IN  << Node(IF bare THEN "div" ELSE "title", "", 0,
                IF blank THEN <<>> ELSE <<"T", "i">>, NoAttrs),
           Node("meta", "", 0, <<>>,
                IF bare THEN [name |-> <<"generator">>]
                ELSE IF blank THEN [property |-> <<"og:title">>]
                ELSE [property |-> <<"og:title">>, content |-> <<"O", "G">>]),
           Node("meta", "", 0, <<>>,
                [name |-> <<"author">>, content |-> <<"A", "n", "n">>]),
           Node(IF bare THEN "div" ELSE "h1", "title", 0,
                IF variant \in {"emptyh1", "blank"} THEN <<" ">> ELSE <<"H", "1">>,
                NoAttrs),
           Node("div", "ad", 0, <<"a", "d">>, NoAttrs),
           Node("article", "", 0, Body(n), NoAttrs),
           Node("span", "ad", 6, <<"b", "u", "y">>, NoAttrs),
           Node("div", "empty", 0, <<" ">>, NoAttrs),
           A("more", 0, <<"n", "e", "x", "t">>, <<"/", "article", "/", "43">>) >>

Variants == {"full", "emptyh1", "blank", "bare"}

\* Body lengths around the smallest legal maxContentLength and around the
\* default minContentLength
NearMax == {MinMaxContentLength + d - 1 : d \in 0..(MaxPad + 1)}
NearMin == {DefaultMinContentLength + d - 1 : d \in 0..(MaxPad + 1)}

Page(kind, variant, n) == [kind |-> kind, variant |-> variant, n |-> n]

ArticlePages ==
    {Page("article", v, MinMaxContentLength) : v \in Variants}
    \cup {Page("article", "full", n) : n \in {0} \cup NearMax \cup NearMin}

PageUrl(page) ==
    CASE page.kind = "news" -> NewsUrl
      [] page.kind = "many" -> ArchiveUrl
      [] page.kind = "article" -> ArticleUrl(page.variant, page.n)
      [] OTHER -> NewsUrl

\* The pages a fetch of the URL can return
PagesAt(url) ==
    {p \in ArticlePages \cup {Page("news", "", 0), Page("many", "", 0),
                              Page("empty", "", 0)} : PageUrl(p) = url}
    \cup (IF url = OtherUrl THEN {Page("news", "", 0)} ELSE {})

\* The document of a page (what BeautifulSoup makes of crawl_result.html)
PageDom(page) ==
    CASE page.kind = "news" -> NewsPage
      [] page.kind = "many" -> ManyLinksPage(DefaultMaxLinks + MaxPad)
      [] page.kind = "article" -> ArticlePage(page.variant, page.n)
      [] OTHER -> EmptyPage

\* crawl_result.markdown.raw_markdown: the crawler's rendering of the page
PageMarkdown(page) ==
    <<"#", " ">> \o get_text(BeautifulSoup(PageDom(page)), 0)

\* A CrawlResult names its page; a call that raised has no result.
NoCrawl == [raised |-> FALSE, success |-> FALSE, page |-> Page("empty", "", 0),
            error_message |-> NoneStr, exception |-> ""]

Fetched(page) ==
    [raised |-> FALSE, success |-> TRUE, page |-> page,
     error_message |-> NoneStr, exception |-> ""]

\* success = False: the page the browser ended on is still in the result
FetchFailed(msg) ==
    [raised |-> FALSE, success |-> FALSE, page |-> Page("news", "", 0),
     error_message |-> msg, exception |-> ""]

FetchRaised ==
    [raised |-> TRUE, success |-> FALSE, page |-> Page("empty", "", 0),
     error_message |-> NoneStr, exception |-> "browser closed"]

FailedOutcomes ==
    {FetchFailed(m) : m \in {NoneStr, "", "net::ERR_TIMED_OUT"}} \cup {FetchRaised}

\* What crawler.arun can come back with for a URL
Outcomes(url) == FailedOutcomes \cup {Fetched(p) : p \in PagesAt(url)}

\* ------------------------------------------------------------------------
\* Fixtures: requests
\* ------------------------------------------------------------------------

NoSelectors ==
    [none |-> TRUE, css |-> <<>>, urlPatterns |-> <<>>, textPatterns |-> <<>>]

CssChoices ==
    { <<>>,
      << <<"article", " ", "a">> >>,
      << <<".", "post-link">>, <<"a">> >>,
      << <<"a">>, BadSelector >> }

UrlPatternChoices ==
    { <<>>,
      << <<"zzz">>, <<"/", "ARTICLE", "/">> >>,
      << <<"/", "article", "/", "42">>, BadPattern >> }

TextPatternChoices ==
    { <<>>, << <<"O">>, BadPattern >> }

SelectorChoices ==
    {NoSelectors} \cup
    [none : {FALSE}, css : CssChoices, urlPatterns : UrlPatternChoices,
     textPatterns : TextPatternChoices]

NoFilters ==
    [none |-> TRUE, minTextLength |-> NoneInt, maxLinks |-> NoneInt,
     excludePatterns |-> <<>>, includeExternal |-> FALSE]

FilterChoices ==
    {NoFilters} \cup
    [none : {FALSE}, minTextLength : {NoneInt, 5},
     maxLinks : {NoneInt, 1, 2},
     excludePatterns : { <<>>, << <<"/", "about">> >>, << BadPattern >> },
     includeExternal : BOOLEAN]

\* On the archive (more links than the default cap): a few requests only
ArchiveSelectors ==
    {x \in SelectorChoices : x.css = <<>> /\ x.textPatterns = <<>>}
ArchiveFilters ==
    {x \in FilterChoices : x.minTextLength = NoneInt /\ x.excludePatterns = <<>>}

DiscoverRequests ==
    [endpoint : {"discover"}, url : {NewsUrl, OtherUrl},
     selectors : SelectorChoices, filters : FilterChoices]
    \cup [endpoint : {"discover"}, url : {ArchiveUrl},
          selectors : ArchiveSelectors, filters : ArchiveFilters]
    \cup [endpoint : {"discover"}, url : {ArticleUrl("full", 0)},
          selectors : {NoSelectors}, filters : {NoFilters}]

\* Selectors the scrape requests use
H1Title == <<"h1", ".", "title">>
AnyTitle == <<".", "title">>
EmptyDiv == <<".", "empty">>
Missing == <<".", "missing">>
Article == <<"article">>
Ad == <<".", "ad">>

NoTitleConfig == [none |-> TRUE, selectors |-> <<>>, fallbackToMeta |-> TRUE]

TitleConfigs ==
    {NoTitleConfig} \cup
    [none : {FALSE},
     selectors : { <<>>, <<H1Title>>, <<EmptyDiv, H1Title>>, <<Missing, AnyTitle>>,
                   <<BadSelector>> },
     fallbackToMeta : BOOLEAN]

NoContentConfig ==
    [none |-> TRUE, selectors |-> <<>>, format |-> NoneStr, removeSelectors |-> <<>>]

ContentConfig(selectors, format, removeSelectors) ==
    [none |-> FALSE, selectors |-> selectors, format |-> format,
     removeSelectors |-> removeSelectors]

ContentConfigs ==
    {NoContentConfig} \cup
    [none : {FALSE},
     selectors : { <<>>, <<Article>>, <<Missing, Article>>, <<EmptyDiv, Article>> },
     format : {"markdown", "html", "text"},
     removeSelectors : { <<>>, <<Ad>> }]
    \cup { ContentConfig(<<>>, NoneStr, <<>>),
           ContentConfig(<<BadSelector>>, "text", <<>>),
           ContentConfig(<<Article>>, "text", <<BadSelector>>),
           ContentConfig(<<Article>>, "text", <<Ad, Article>>) }

\* ProcessingConfig(): the defaults
ProcessingConfig ==
    [none |-> FALSE,
     minContentLength |-> DefaultMinContentLength,
     maxContentLength |-> DefaultMaxContentLength,
     stripHtml |-> FALSE,
     normalizeWhitespace |-> TRUE]

NoProcessing == [ProcessingConfig EXCEPT !.none = TRUE]

ProcessingOf(min, max, stripHtml, normalizeWhitespace) ==
    [none |-> FALSE, minContentLength |-> min, maxContentLength |-> max,
     stripHtml |-> stripHtml, normalizeWhitespace |-> normalizeWhitespace]

\* Around the smallest legal maximum: no minimum, the maximum as minimum,
\* the maximum and the marker as minimum, one more; and null limits
ProcessingChoices ==
    { NoProcessing,
      ProcessingOf(0, MinMaxContentLength, FALSE, TRUE),
      ProcessingOf(MinMaxContentLength, MinMaxContentLength, TRUE, TRUE),
      ProcessingOf(MinMaxContentLength + 3, MinMaxContentLength, FALSE, FALSE),
      ProcessingOf(MinMaxContentLength + 4, MinMaxContentLength, FALSE, TRUE),
      ProcessingOf(NoneInt, MinMaxContentLength, FALSE, TRUE),
      ProcessingOf(0, NoneInt, FALSE, TRUE) }

NoExtract ==
    [none |-> TRUE, title |-> NoTitleConfig, content |-> NoContentConfig,
     metadata |-> <<>>, customFields |-> <<>>]

Extract(title, content, metadata, customFields) ==
    [none |-> FALSE, title |-> title, content |-> content,
     metadata |-> metadata, customFields |-> customFields]

CustomField(name, selector, attribute) ==
    [name |-> name, selector |-> selector, attribute |-> attribute]

MetadataChoices == { <<"author">>, <<"title", "date">> }

CustomFieldChoices ==
    { <<>>,
      << CustomField("next", <<"a", ".", "more">>, "href") >>,
      << CustomField("head", H1Title, NoneStr),
         CustomField("head", Ad, "class"),
         CustomField("bad", BadSelector, NoneStr) >> }

ScrapeRequest(url, extract, processing) ==
    [endpoint |-> "scrape", url |-> url, extract |-> extract,
     processing |-> processing]

\* Title configurations on every variant of the article page; content
\* configurations and limits on bodies around the maximum; the defaults
\* on bodies around the default minimum; metadata and custom fields.
ScrapeRequests ==
    {ScrapeRequest(ArticleUrl(v, MinMaxContentLength),
                   Extract(t, NoContentConfig, <<>>, <<>>),
                   ProcessingOf(0, MinMaxContentLength, FALSE, TRUE)) :
        v \in Variants, t \in TitleConfigs}
    \cup {ScrapeRequest(ArticleUrl("full", n),
                        Extract(NoTitleConfig, c, <<>>, <<>>), p) :
            n \in {0} \cup NearMax, c \in ContentConfigs, p \in ProcessingChoices}
    \cup {ScrapeRequest(ArticleUrl("full", n), e, NoProcessing) :
            n \in NearMin,
            e \in {NoExtract,
                   Extract(NoTitleConfig, ContentConfig(<<Article>>, "text", <<Ad>>),
                           <<>>, <<>>)}}
    \cup {ScrapeRequest(ArticleUrl("full", MinMaxContentLength),
                        Extract(NoTitleConfig, ContentConfig(<<>>, "text", <<Ad>>),
                                m, f), p) :
            m \in MetadataChoices, f \in CustomFieldChoices,
            p \in {ProcessingOf(0, MinMaxContentLength, FALSE, TRUE),
                   ProcessingOf(MinMaxContentLength + 4, MinMaxContentLength,
                                FALSE, TRUE)}}

\* ------------------------------------------------------------------------
\* Responses
\* ------------------------------------------------------------------------

\* raise HTTPException(status_code, detail): the framework answers with the
\* status and the body {"detail": detail}.
HTTPException(status_code, detail) ==
    [status |-> status_code, body |-> [detail |-> detail]]

IsError(r) == r.status # 200

\* ------------------------------------------------------------------------
\* POST /v1/discover
\* ------------------------------------------------------------------------

\* parent.get_text(strip=True)[:200]
LinkContext(soup, e) == Take(get_text(soup, soup.nodes[e].parent), ContextLimit)

DiscoveredLink(soup, link, request) ==
    [url |-> link.url,
     text |-> IF link.text = <<>> THEN <<"[No title]">> ELSE link.text,
     context |-> LinkContext(soup, link.element),
     metadata |-> [selector |->
                     IF ~request.selectors.none /\ request.selectors.css # <<>>
                     THEN "custom" ELSE "default"]]

\* Build response; crawlDuration, a wall-clock reading, is left out.
DiscoverResponse(request, total_links, discovered) ==
    [resp |-> [status |-> 200,
               body |-> [success |-> TRUE,
                         url |-> request.url,
                         linksFound |-> Len(discovered),
                         links |-> discovered,
                         metadata |-> [jsRendered |-> TRUE,
                                       totalLinksOnPage |-> total_links]]],
     steps |-> <<"parse", "select", "filter", "respond">>]

\* Apply filters (ex: what extract_links_by_selectors returned)
DiscoverFiltered(request, soup, ex, fl) ==
    IF fl.err # ""
    THEN [resp |-> HTTPException(500, <<fl.err>>),
          steps |-> <<"parse", "select", "filter", "raise:re.error">>]
    ELSE DiscoverResponse(request, Len(ex.links),
             [k \in 1..Len(fl.filtered) |->
                 DiscoveredLink(soup, fl.filtered[k], request)])

\* Extract links
DiscoverSelected(request, soup, ex) ==
    IF ex.err # ""
    THEN [resp |-> HTTPException(500, <<ex.err>>),
          steps |-> <<"parse", "select", "raise:SelectorSyntaxError">>]
    ELSE DiscoverFiltered(request, soup, ex,
             apply_link_filters(ex.links, request.filters, request.selectors,
                                request.url))

DiscoverParsed(request, soup) ==
    DiscoverSelected(request, soup,
        extract_links_by_selectors(soup, request.selectors, request.url))

\* discover_links without the test of crawl_result.success
discover_links_unchecked(request, crawl_result) ==
    IF crawl_result.raised
    THEN [resp |-> HTTPException(500, <<crawl_result.exception>>),
          steps |-> <<"raise:UnexpectedError">>]
    ELSE DiscoverParsed(request, BeautifulSoup(PageDom(crawl_result.page)))

\* The handler from the return of crawler.arun on: the response and the
\* steps taken, in order.
discover_links(request, crawl_result) ==
    IF crawl_result.raised
    THEN [resp |-> HTTPException(500, <<crawl_result.exception>>),
          steps |-> <<"raise:UnexpectedError">>]
    ELSE IF ~crawl_result.success
    THEN [resp |-> HTTPException(422,
                      <<OrStr(crawl_result.error_message, "Failed to crawl page")>>),
          steps |-> <<"raise:FetchFailed">>]
    ELSE DiscoverParsed(request, BeautifulSoup(PageDom(crawl_result.page)))

\* ------------------------------------------------------------------------
\* POST /v1/scrape
\* ------------------------------------------------------------------------

\* Python's None where a string is expected; `not x` of an Optional[str]
None == <<NoneStr>>
Falsy(x) == x = None \/ x = <<>>

\* f"css:{selector}" and f"meta:{candidate.name}"
CssMethod(selector) == <<"css", ":">> \o selector
MetaMethod(name) == <<"meta", ":", name>>

\* candidate.get('content', '') for a meta element, else
\* candidate.get_text(strip=True)
CandidateTitle(soup, c) ==
    IF soup.nodes[c].tag = "meta"
    THEN (IF HasAttr(soup.nodes[c], "content") THEN soup.nodes[c].attrs.content
          ELSE <<>>)
    ELSE get_text(soup, c)

\* The body of the fallback loop once the candidate's text t is read: the
\* title is assigned whatever t is, the loop ends on a non-empty one.
TakeCandidate(name, t, acc, record_method) ==
    IF t # <<>>
    THEN [err |-> "", title |-> t,
          method |-> IF record_method THEN MetaMethod(name) ELSE acc.method,
          done |-> TRUE]
    ELSE [acc EXCEPT !.title = t]

\* One turn of the loop over [soup.find('h1'), soup.find('meta',
\* property='og:title'), soup.find('title')] for candidate c (0: None)
CandidateStep(soup, c, acc, record_method) ==
    IF acc.done \/ c = 0 THEN acc
    ELSE TakeCandidate(soup.nodes[c].tag, CandidateTitle(soup, c), acc,
                       record_method)

\* The loop over the three candidates; only the loop of the configured
\* branch records the extraction method.
FallbackTitle(soup, acc, record_method) ==
    CandidateStep(soup, find(soup, "title"),
        CandidateStep(soup, find_meta(soup, "property", <<"og:title">>),
            CandidateStep(soup, find(soup, "h1"), [acc EXCEPT !.done = FALSE],
                          record_method),
            record_method),
        record_method)

\* One turn of the loop over request.extract.title.selectors: r is what
\* soup.select_one(selector) gave.  A matched element ends the loop.
TitleSelected(soup, selector, r, acc) ==
    IF r.err # "" THEN [acc EXCEPT !.err = r.err, !.done = TRUE]
    ELSE IF r.node = 0 THEN acc
    ELSE [err |-> "", title |-> get_text(soup, r.node),
          method |-> CssMethod(selector), done |-> TRUE]

RECURSIVE TitleSelectorLoop(_, _, _)
TitleSelectorNext(soup, selectors, acc) ==
    IF acc.done THEN acc ELSE TitleSelectorLoop(soup, selectors, acc)
TitleSelectorLoop(soup, selectors, acc) ==
    IF selectors = <<>> THEN acc
    ELSE TitleSelectorNext(soup, Tail(selectors),
             TitleSelected(soup, Head(selectors),
                           select_one(soup, Head(selectors)), acc))

NoTitle == [err |-> "", title |-> None, method |-> <<"default">>, done |-> FALSE]

\* Fallback to meta tags
TitleFallback(soup, config, t) ==
    IF t.err = "" /\ Falsy(t.title) /\ config.fallbackToMeta
    THEN FallbackTitle(soup, t, TRUE) ELSE t

\* Extract title: the title (None, or a string) and the extraction method
extract_title(request, soup) ==
    IF ~request.extract.none /\ ~request.extract.title.none
    THEN TitleFallback(soup, request.extract.title,
             TitleSelectorLoop(soup, request.extract.title.selectors, NoTitle))
    ELSE FallbackTitle(soup, NoTitle, FALSE)

\* element.decompose() for each of the elements: they and their
\* descendants leave the tree
Decompose(soup, elements) ==
    [soup EXCEPT !.gone = @ \cup
        {j \in 1..Len(soup.nodes) :
            \E k \in 1..Len(elements) :
                j = elements[k] \/ elements[k] \in Ancestors(soup.nodes, j)}]

\* Remove unwanted elements
RECURSIVE RemoveLoop(_, _)
Removed(soup, selectors, r) ==
    IF r.err # "" THEN [err |-> r.err, soup |-> soup]
    ELSE RemoveLoop(Decompose(soup, r.nodes), selectors)
RemoveLoop(soup, selectors) ==
    IF selectors = <<>> THEN [err |-> "", soup |-> soup]
    ELSE Removed(soup, Tail(selectors), select(soup, Head(selectors)))

remove_unwanted(request, soup) ==
    IF ~request.extract.none /\ ~request.extract.content.none
    THEN RemoveLoop(soup, request.extract.content.removeSelectors)
    ELSE [err |-> "", soup |-> soup]

\* request.extract.content.format or "markdown"
content_format(request) ==
    IF ~request.extract.none /\ ~request.extract.content.none
    THEN OrStr(request.extract.content.format, "markdown")
    ELSE "markdown"

\* The content of a matched element in the format
ElementContent(soup, page, e, format) ==
    IF format = "html" THEN Serialize(soup, e)
    ELSE IF format = "text" THEN get_text(soup, e)
    ELSE PageMarkdown(page)

\* One turn of the loop over request.extract.content.selectors
ContentSelected(soup, page, selector, format, r, acc) ==
    IF r.err # "" THEN [acc EXCEPT !.err = r.err, !.done = TRUE]
    ELSE IF r.node = 0 THEN acc
    ELSE [err |-> "", content |-> ElementContent(soup, page, r.node, format),
          method |-> CssMethod(selector), done |-> TRUE]

RECURSIVE ContentSelectorLoop(_, _, _, _, _)
ContentSelectorNext(soup, page, selectors, format, acc) ==
    IF acc.done THEN acc
    ELSE ContentSelectorLoop(soup, page, selectors, format, acc)
ContentSelectorLoop(soup, page, selectors, format, acc) ==
    IF selectors = <<>> THEN acc
    ELSE ContentSelectorNext(soup, page, Tail(selectors), format,
             ContentSelected(soup, page, Head(selectors), format,
                             select_one(soup, Head(selectors)), acc))

NoContent == [err |-> "", content |-> None, method |-> None, done |-> FALSE]

\* Default: use crawl4ai's markdown (or the fetched html, or the text of
\* what is left of the document)
DefaultContent(soup, page, format, c) ==
    IF c.err # "" \/ ~Falsy(c.content) THEN c
    ELSE [c EXCEPT !.content =
            IF format = "markdown" THEN PageMarkdown(page)
            ELSE IF format = "html" THEN page_html(PageDom(page))
            ELSE get_text(soup, 0)]

\* Extract content: the content and the extraction method of the selector
\* that matched (None: no selector matched)
extract_content(request, page, soup) ==
    DefaultContent(soup, page, content_format(request),
        IF ~request.extract.none /\ ~request.extract.content.none
        THEN ContentSelectorLoop(soup, page, request.extract.content.selectors,
                                 content_format(request), NoContent)
        ELSE NoContent)

\* BeautifulSoup(content, 'html.parser').get_text(strip=True): the text
\* between the tags, each run stripped
StripStep(c, acc) ==
    IF acc.inTag THEN (IF c = ">" THEN [acc EXCEPT !.inTag = FALSE] ELSE acc)
    ELSE IF c = "<"
    THEN [out |-> acc.out \o Strip(acc.run), run |-> <<>>, inTag |-> TRUE]
    ELSE [acc EXCEPT !.run = Append(@, c)]

RECURSIVE StripLoop(_, _, _, _)
StripRest(s, lo, hi, a) == IF Computed(a) THEN StripLoop(s, lo, hi, a) ELSE a
StripLoop(s, lo, hi, acc) ==
    IF lo > hi THEN acc
    ELSE IF lo = hi THEN StripStep(s[lo], acc)
    ELSE StripRest(s, (lo + hi) \div 2 + 1, hi,
                   StripLoop(s, lo, (lo + hi) \div 2, acc))

TextRuns(acc) == acc.out \o Strip(acc.run)

StripTags(content) ==
    TextRuns(StripLoop(content, 1, Len(content),
                       [out |-> <<>>, run |-> <<>>, inTag |-> FALSE]))

\* request.processing or ProcessingConfig()
Processing(request) ==
    IF request.processing.none THEN ProcessingConfig ELSE request.processing

Normalized(content, processing) ==
    IF processing.normalizeWhitespace THEN NormalizeWhitespace(content)
    ELSE content

Stripped(content, processing, format) ==
    IF processing.stripHtml /\ format # "text" THEN StripTags(content)
    ELSE content

\* Truncated with the slice one character long
TruncatedLate(content, maxContentLength) ==
    IF Len(content) > maxContentLength
    THEN Take(content, maxContentLength + 1) \o <<".", ".", ".">>
    ELSE content

\* Apply length limits
Truncated(content, maxContentLength) ==
    IF Len(content) > maxContentLength
    THEN Take(content, maxContentLength) \o <<".", ".", ".">>
    ELSE content

\* Process content, up to the validation of the minimum; comparing a
\* length with None raises TypeError.
process_content(content, format, processing) ==
    IF processing.maxContentLength = NoneInt
    THEN [err |-> "TypeError", content |-> <<>>]
    ELSE [err |-> "",
          content |-> Truncated(Stripped(Normalized(content, processing),
                                         processing, format),
                                processing.maxContentLength)]

\* soup.find('meta', attrs={'name': meta_name})
\*     or soup.find('meta', property=f"og:{meta_name}")
MetaTag(soup, meta_name) ==
    IF find_meta(soup, "name", <<meta_name>>) # 0
    THEN find_meta(soup, "name", <<meta_name>>)
    ELSE find_meta(soup, "property", <<"og:" \o meta_name>>)

MetaContent(node) == IF HasAttr(node, "content") THEN node.attrs.content ELSE <<>>

\* Extract metadata: a dict, empty when nothing was asked for or found
extract_metadata(request, soup) ==
    IF request.extract.none THEN <<>>
    ELSE [m \in {request.extract.metadata[k] : k \in
                    {k \in 1..Len(request.extract.metadata) :
                        MetaTag(soup, request.extract.metadata[k]) # 0}} |->
             MetaContent(soup.nodes[MetaTag(soup, m)])]

\* custom_fields_data[field.name] = value
SetItem(dict, key, value) ==
    [x \in DOMAIN dict \cup {key} |-> IF x = key THEN value ELSE dict[x]]

FieldValue(soup, field, e) ==
    IF field.attribute # NoneStr /\ field.attribute # ""
    THEN (IF HasAttr(soup.nodes[e], field.attribute)
          THEN soup.nodes[e].attrs[field.attribute] ELSE <<>>)
    ELSE get_text(soup, e)

\* One turn of the loop over request.extract.customFields
FieldSelected(soup, field, r, acc) ==
    IF r.err # "" THEN [acc EXCEPT !.err = r.err]
    ELSE IF r.node = 0 THEN acc
    ELSE [acc EXCEPT !.data = SetItem(@, field.name, FieldValue(soup, field, r.node))]

RECURSIVE FieldLoop(_, _, _)
FieldNext(soup, fields, acc) ==
    IF acc.err # "" THEN acc ELSE FieldLoop(soup, fields, acc)
FieldLoop(soup, fields, acc) ==
    IF fields = <<>> THEN acc
    ELSE FieldNext(soup, Tail(fields),
             FieldSelected(soup, Head(fields),
                           select_one(soup, Head(fields).selector), acc))

\* Extract custom fields
extract_custom_fields(request, soup) ==
    FieldLoop(soup, IF request.extract.none THEN <<>> ELSE request.extract.customFields,
              [err |-> "", data |-> <<>>])

\* except Exception as e: raise HTTPException(500, detail=str(e))
Unexpected(err, steps) ==
    [resp |-> HTTPException(500, <<err>>), steps |-> Append(steps, "raise:" \o err)]

\* return ScrapeResponse(success=True, ...); crawlDuration, a wall-clock
\* reading, is left out.
ScrapeResponse(request, t, c, content, extracted_metadata, custom_fields_data) ==
    [resp |-> [status |-> 200,
               body |-> [success |-> TRUE,
                         url |-> request.url,
                         data |-> [title |-> t.title,
                                   content |-> content,
                                   contentLength |-> Len(content),
                                   format |-> content_format(request),
                                   metadata |-> extracted_metadata,
                                   customFields |-> custom_fields_data],
                         metadata |-> [jsRendered |-> TRUE,
                                       extractionMethod |->
                                           IF c.method # None THEN c.method
                                           ELSE t.method]]],
     steps |-> <<"parse", "title", "remove", "content", "process", "validate",
                 "metadata", "custom", "respond">>]

ScrapeFields(request, t, c, content, extracted_metadata, cf) ==
    IF cf.err # ""
    THEN Unexpected(cf.err, <<"parse", "title", "remove", "content", "process",
                              "validate", "metadata", "custom">>)
    ELSE ScrapeResponse(request, t, c, content, extracted_metadata, cf.data)

\* raise HTTPException(422, detail=f"Insufficient content extracted
\* ({len(content)} chars, minimum {processing.minContentLength})")
InsufficientContent(length, minimum) ==
    HTTPException(422, <<"Insufficient content extracted (", ToString(length),
                         " chars, minimum ", ToString(minimum), ")">>)

\* Validate minimum length, then extract metadata and custom fields
ScrapeProcessed(request, t, soup, c, p, minContentLength) ==
    IF p.err # ""
    THEN Unexpected(p.err, <<"parse", "title", "remove", "content", "process">>)
    ELSE IF minContentLength = NoneInt
    THEN Unexpected("TypeError", <<"parse", "title", "remove", "content",
                                   "process", "validate">>)
    ELSE IF Len(p.content) < minContentLength
    THEN [resp |-> InsufficientContent(Len(p.content), minContentLength),
          steps |-> <<"parse", "title", "remove", "content", "process",
                      "validate", "raise:InsufficientContent">>]
    ELSE ScrapeFields(request, t, c, p.content,
                      extract_metadata(request, soup),
                      extract_custom_fields(request, soup))

\* Process content
ScrapeExtracted(request, t, soup, c) ==
    IF c.err # ""
    THEN Unexpected(c.err, <<"parse", "title", "remove", "content">>)
    ELSE ScrapeProcessed(request, t, soup, c,
             process_content(c.content, content_format(request),
                             Processing(request)),
             Processing(request).minContentLength)

\* Extract content (rm: the soup after the removals)
ScrapeCleaned(request, page, t, rm) ==
    IF rm.err # "" THEN Unexpected(rm.err, <<"parse", "title", "remove">>)
    ELSE ScrapeExtracted(request, t, rm.soup,
                         extract_content(request, page, rm.soup))

\* Remove unwanted elements
ScrapeTitled(request, page, soup, t) ==
    IF t.err # "" THEN Unexpected(t.err, <<"parse", "title">>)
    ELSE ScrapeCleaned(request, page, t, remove_unwanted(request, soup))

\* Extract title
ScrapeParsed(request, page, soup) ==
    ScrapeTitled(request, page, soup, extract_title(request, soup))

\* The handler from the return of crawler.arun on: the response and the
\* steps taken, in order.
scrape_content(request, crawl_result) ==
    IF crawl_result.raised
    THEN [resp |-> HTTPException(500, <<crawl_result.exception>>),
          steps |-> <<"raise:UnexpectedError">>]
    ELSE IF ~crawl_result.success
    THEN [resp |-> HTTPException(422,
                      <<OrStr(crawl_result.error_message, "Failed to scrape page")>>),
          steps |-> <<"raise:FetchFailed">>]
    ELSE ScrapeParsed(request, crawl_result.page,
                      BeautifulSoup(PageDom(crawl_result.page)))

\* ------------------------------------------------------------------------
\* The service
\* ------------------------------------------------------------------------

NoResp == [status |-> 0, body |-> [detail |-> <<>>]]
NoReq == [endpoint |-> "none"]

Init ==
    /\ pc = "idle"
    /\ req = NoReq
    /\ crawl = NoCrawl
    /\ resp = NoResp
    /\ events = <<>>

\* A discover request arrives and the handler runs up to its await of
\* crawler.arun: nothing of the request is examined before the fetch.
DiscoverStart ==
    /\ pc = "idle"
    /\ \E r \in DiscoverRequests : req' = r
    /\ pc' = "discover_await"
    /\ events' = <<"fetch">>
    /\ UNCHANGED <<crawl, resp>>

\* crawler.arun returns (or raises) and the handler runs to its response.
DiscoverFinish ==
    /\ pc = "discover_await"
    /\ \E c \in Outcomes(req.url) :
          \E out \in {discover_links(req, c)} :
              /\ crawl' = c
              /\ resp' = out.resp
              /\ events' = events \o out.steps
    /\ pc' = "done"
    /\ UNCHANGED req

\* A scrape request arrives and the handler runs up to its await of
\* crawler.arun.
ScrapeStart ==
    /\ pc = "idle"
    /\ \E r \in ScrapeRequests : req' = r
    /\ pc' = "scrape_await"
    /\ events' = <<"fetch">>
    /\ UNCHANGED <<crawl, resp>>

\* crawler.arun returns (or raises) and the handler runs to its response.
ScrapeFinish ==
    /\ pc = "scrape_await"
    /\ \E c \in Outcomes(req.url) :
          \E out \in {scrape_content(req, c)} :
              /\ crawl' = c
              /\ resp' = out.resp
              /\ events' = events \o out.steps
    /\ pc' = "done"
    /\ UNCHANGED req

\* The response is sent; no state outlives the request.
Respond ==
    /\ pc = "done"
    /\ pc' = "idle"
    /\ req' = NoReq
    /\ crawl' = NoCrawl
    /\ resp' = NoResp
    /\ events' = <<>>

Next == DiscoverStart \/ DiscoverFinish \/ ScrapeStart \/ ScrapeFinish \/ Respond

Spec == Init /\ [][Next]_vars

\* ------------------------------------------------------------------------
\* Properties
\* ------------------------------------------------------------------------

DiscoverDone == pc = "done" /\ req.endpoint = "discover"
ScrapeDone == pc = "done" /\ req.endpoint = "scrape"

\* The fetch returned a page
Parsed == ~crawl.raised /\ crawl.success

\* What the handler computed on the way to its response
CrawlSoup == BeautifulSoup(PageDom(crawl.page))
Selected == LinkElements(CrawlSoup, req.selectors)
Extracted == extract_links_by_selectors(CrawlSoup, req.selectors, req.url)
Filtered ==
    apply_link_filters(Extracted.links, req.filters, req.selectors, req.url)

\* A function on 1..n as the sequence of its values
Tabulated(f) == f \o <<>>

\* The host of an absolute or protocol-relative URL, "" if it has none
HostOf(url) ==
    IF Len(url) >= 4 /\ url[2] = ":" /\ url[3] = "//" THEN url[4]
    ELSE IF Len(url) >= 2 /\ url[1] = "//" THEN url[2]
    ELSE ""

\* C1: the links extract_links_by_selectors returns, and so the links of a
\* discover response, hold no URL twice; they are, in selection order, the
\* first element for each resolved URL, with that element's text, whatever
\* the text of the later elements with the same URL.
C1_FirstOccurrenceKept ==
    (DiscoverDone /\ Parsed /\ Selected.err = "") =>
        LET soup == CrawlSoup
            els == Selected.nodes
            links == Extracted.links
            Linked(k) == /\ HasAttr(soup.nodes[els[k]], "href")
                         /\ soup.nodes[els[k]].attrs.href # <<>>
            R == Tabulated([k \in 1..Len(els) |->
                    IF Linked(k) THEN resolve(soup.nodes[els[k]].attrs.href, req.url)
                    ELSE <<>>])
            first == Tabulated([k \in 1..Len(els) |->
                        Linked(k) /\ \A j \in 1..(k - 1) : Linked(j) => R[j] # R[k]])
            rank == Tabulated([k \in 1..Len(els) |->
                        Cardinality({j \in 1..k : first[j]})])
            out == resp.body.links
        IN  /\ \A i, j \in 1..Len(links) : i # j => links[i].url # links[j].url
            /\ Len(links) = IF els = <<>> THEN 0 ELSE rank[Len(els)]
            /\ \A k \in 1..Len(els) :
                  first[k] => links[rank[k]] =
                                 [url |-> R[k], text |-> get_text(soup, els[k]),
                                  element |-> els[k]]
            /\ resp.status = 200 =>
                  \A i, j \in 1..Len(out) : i # j => out[i].url # out[j].url

\* A section front with two links to the same article under different
\* texts: the response names the article once, with the first text.
C1_Witness ==
    /\ DiscoverDone /\ resp.status = 200
    /\ crawl.page.kind = "news" /\ req.url = NewsUrl /\ req.selectors.none
    /\ Cardinality({e \in 1..Len(NewsPage) :
                      /\ HasAttr(NewsPage[e], "href")
                      /\ NewsPage[e].attrs.href = <<"/", "article", "/", "42">>}) = 2
    /\ \E i \in 1..Len(resp.body.links) :
          /\ resp.body.links[i].url = Url("news.example", <<"/", "article", "/", "42">>)
          /\ resp.body.links[i].text = <<"B", "i", "g", " ", "S", "t", "o", "r", "y">>

\* C2: with maxLinks = k (100 when filters or maxLinks are absent),
\* apply_link_filters returns at most k links: the first k links, in input
\* order, that the filters accept; once the k-th is accepted no later link
\* is evaluated, and the response holds exactly the returned links.
C2_Cap ==
    (DiscoverDone /\ Parsed /\ Extracted.err = "" /\ Filtered.err = "") =>
        LET links == Extracted.links
            fl == Filtered
            k == IF req.filters.none \/ req.filters.maxLinks = NoneInt
                 THEN DefaultMaxLinks ELSE req.filters.maxLinks
            verdict == Tabulated([i \in 1..Len(links) |->
                           FilterLink(links[i],
                                      IF req.filters.none THEN DefaultFilters
                                      ELSE req.filters,
                                      req.selectors, urlparse(req.url).netloc)])
            rank == Tabulated([i \in 1..Len(links) |->
                        Cardinality({j \in 1..i : verdict[j] = "pass"})])
            kept == {i \in 1..Len(links) : verdict[i] = "pass" /\ rank[i] <= k}
        IN  /\ Len(fl.filtered) <= k
            /\ Len(fl.filtered) = Cardinality(kept)
            /\ \A i \in kept : fl.filtered[rank[i]] = links[i]
            /\ Cardinality(kept) = k =>
                  fl.evaluated \in kept /\ rank[fl.evaluated] = k
            /\ Cardinality(kept) < k => fl.evaluated = Len(links)
            /\ resp.status = 200
            /\ resp.body.linksFound = Len(fl.filtered)
            /\ Len(resp.body.links) = Len(fl.filtered)
            /\ \A i \in 1..Len(fl.filtered) :
                  resp.body.links[i].url = fl.filtered[i].url

\* An archive of more links than the default cap, asked for without
\* filters: the response holds the default cap of links.
C2_Witness ==
    /\ DiscoverDone /\ resp.status = 200
    /\ req.filters.none
    /\ resp.body.metadata.totalLinksOnPage > DefaultMaxLinks
    /\ resp.body.linksFound = DefaultMaxLinks
    /\ Filtered.evaluated = DefaultMaxLinks

\* C3: unless includeExternal is true (it is false when filters are
\* absent), every link apply_link_filters returns, and every link of the
\* discover response, has the host of the request URL.
C3_SameHost ==
    (DiscoverDone /\ Parsed /\ Extracted.err = "" /\ Filtered.err = ""
        /\ (req.filters.none \/ ~req.filters.includeExternal)) =>
        LET filtered == Filtered.filtered
            out == resp.body.links
        IN  /\ \A i \in 1..Len(filtered) : HostOf(filtered[i].url) = HostOf(req.url)
            /\ resp.status = 200
            /\ \A i \in 1..Len(out) : HostOf(out[i].url) = HostOf(req.url)

\* A page with links to another host, asked for without filters: links
\* are returned, none to the other host.
C3_Witness ==
    /\ DiscoverDone /\ resp.status = 200
    /\ req.filters.none /\ req.selectors.none
    /\ LET links == Extracted.links
       IN  \E i \in 1..Len(links) :
               HostOf(links[i].url) \notin {"", HostOf(req.url)}
    /\ resp.body.linksFound > 0

\* The fixed message of each endpoint for a failed fetch without one
DefaultFetchMessage ==
    IF req.endpoint = "discover" THEN "Failed to crawl page"
    ELSE "Failed to scrape page"

\* C4: when the fetch returns success = false, the handler goes from the
\* fetch straight to its failure (no parsing, selection or extraction) and
\* the failure carries the fetch's error message unchanged, or the
\* endpoint's fixed message when there is none or it is empty.
C4_FetchFailed ==
    (pc = "done" /\ ~crawl.raised /\ ~crawl.success) =>
        /\ events = <<"fetch", "raise:FetchFailed">>
        /\ resp.status = 422
        /\ resp.body.detail =
              <<IF crawl.error_message \in {NoneStr, ""} THEN DefaultFetchMessage
                ELSE crawl.error_message>>

\* A scrape whose fetch failed with an empty message, on a page that
\* could have been parsed
C4_Witness ==
    /\ ScrapeDone /\ ~crawl.raised /\ ~crawl.success
    /\ crawl.error_message = ""
    /\ PageDom(crawl.page) # <<>>
    /\ resp.body.detail = <<"Failed to scrape page">>

\* The limits in force: the request's, or the defaults without a
\* processing configuration
MinLength ==
    IF req.processing.none THEN DefaultMinContentLength
    ELSE req.processing.minContentLength
MaxLength ==
    IF req.processing.none THEN DefaultMaxContentLength
    ELSE req.processing.maxContentLength

\* The content after normalization and stripping, before the length limits
Untruncated ==
    LET rm == remove_unwanted(req, CrawlSoup)
        c == extract_content(req, crawl.page, rm.soup)
        p == IF req.processing.none
             THEN [stripHtml |-> FALSE, normalizeWhitespace |-> TRUE]
             ELSE req.processing
        n == IF p.normalizeWhitespace THEN NormalizeWhitespace(c.content)
             ELSE c.content
    IN  IF p.stripHtml /\ content_format(req) # "text" THEN StripTags(n) ELSE n

\* The content after normalization and truncation
Processed ==
    LET u == Untruncated
    IN  IF Len(u) > MaxLength THEN Take(u, MaxLength) \o <<".", ".", ".">> ELSE u

\* The handler came to the validation of the minimum length
Validated == \E i \in 1..Len(events) : events[i] = "validate"

\* C5: once the content is normalized and truncated, the scrape succeeds
\* if and only if the content is at least minContentLength long; shorter
\* content gives a failure whose detail states the length and the minimum.
C5_SucceedsIffLongEnough ==
    (ScrapeDone /\ Validated /\ MinLength # NoneInt) =>
        LET content == Processed
        IN  /\ (resp.status = 200 /\ resp.body.success) <=> Len(content) >= MinLength
            /\ Len(content) < MinLength =>
                  /\ resp.status # 200
                  /\ \E i, j \in 1..Len(resp.body.detail) :
                        /\ i < j
                        /\ resp.body.detail[i] = ToString(Len(content))
                        /\ resp.body.detail[j] = ToString(MinLength)

\* C6: every failure of discover or scrape is answered with a structured
\* response that has success = false and a message.
C6_FailureIsStructured ==
    (pc = "done" /\ resp.status # 200) =>
        /\ "success" \in DOMAIN resp.body
        /\ resp.body.success = FALSE
        /\ "error" \in DOMAIN resp.body
        /\ resp.body.error # <<>>

\* A selector or a pattern of the request's configuration is malformed
HasBad(strings, bad) == \E i \in 1..Len(strings) : strings[i] = bad

MalformedRequest ==
    IF req.endpoint = "discover"
    THEN \/ HasBad(req.selectors.css, BadSelector)
         \/ HasBad(req.selectors.urlPatterns, BadPattern)
         \/ HasBad(req.selectors.textPatterns, BadPattern)
         \/ HasBad(req.filters.excludePatterns, BadPattern)
    ELSE \/ HasBad(req.extract.title.selectors, BadSelector)
         \/ HasBad(req.extract.content.selectors, BadSelector)
         \/ HasBad(req.extract.content.removeSelectors, BadSelector)
         \/ \E i \in 1..Len(req.extract.customFields) :
               req.extract.customFields[i].selector = BadSelector

\* C7: a malformed selector or pattern in the request is detected before
\* any fetch is issued (no fetch is ever made for such a request), and it
\* is reported as a kind of its own, not as an unexpected failure.
C7_MalformedDetectedBeforeFetch ==
    (pc # "idle" /\ MalformedRequest) =>
        /\ \A i \in 1..Len(events) : events[i] # "fetch"
        /\ pc = "done" => resp.status \notin {200, 500}

\* C8: a successful scrape response has contentLength equal to the length
\* of its content, which is at most maxContentLength + 3 and at least
\* minContentLength; the three-character marker ends the content exactly
\* when the processed content was longer than maxContentLength.
C8_LengthContract ==
    (ScrapeDone /\ resp.status = 200) =>
        LET data == resp.body.data
            u == Untruncated
        IN  /\ resp.body.success
            /\ data.contentLength = Len(data.content)
            /\ Len(data.content) <= MaxLength + 3
            /\ Len(data.content) >= MinLength
            /\ data.content = IF Len(u) > MaxLength
                              THEN Take(u, MaxLength) \o <<".", ".", ".">>
                              ELSE u

\* A body one character over the maximum, with the maximum and the marker
\* as minimum: the content returned is truncated and exactly long enough.
C8_Witness ==
    /\ ScrapeDone /\ resp.status = 200
    /\ Len(Untruncated) > MaxLength
    /\ resp.body.data.contentLength = MaxLength + 3
    /\ MinLength = MaxLength + 3
    /\ SubSeq(resp.body.data.content, MaxLength + 1, MaxLength + 3) = <<".", ".", ".">>

\* The five rules, as stated: what a pattern list says of a text ("error"
\* when a malformed pattern is met before a match) and the outcome of the
\* first rule that does not pass
SaysOf(patterns, text) ==
    IF \E k \in 1..Len(patterns) :
          /\ patterns[k] # BadPattern
          /\ Contains(LowerStr(text), LowerStr(patterns[k]))
          /\ \A j \in 1..(k - 1) : patterns[j] # BadPattern
    THEN "match"
    ELSE IF HasBad(patterns, BadPattern) THEN "error" ELSE "none"

RuleOutcomes(link) ==
    LET minText == IF req.filters.none \/ req.filters.minTextLength = NoneInt
                   THEN DefaultMinTextLength ELSE req.filters.minTextLength
        external == ~req.filters.none /\ req.filters.includeExternal
        urlPatterns == IF req.selectors.none THEN <<>> ELSE req.selectors.urlPatterns
        textPatterns == IF req.selectors.none THEN <<>> ELSE req.selectors.textPatterns
        excludePatterns == IF req.filters.none THEN <<>> ELSE req.filters.excludePatterns
        include(says) == CASE says = "match" -> "pass"
                           [] says = "none" -> "reject"
                           [] OTHER -> "error"
        exclude(says) == CASE says = "match" -> "reject"
                           [] says = "none" -> "pass"
                           [] OTHER -> "error"
    IN  << IF Len(link.text) >= minText THEN "pass" ELSE "reject",
           IF urlPatterns = <<>> THEN "pass" ELSE include(SaysOf(urlPatterns, link.url)),
           IF textPatterns = <<>> THEN "pass" ELSE include(SaysOf(textPatterns, link.text)),
           IF excludePatterns = <<>> THEN "pass" ELSE exclude(SaysOf(excludePatterns, link.url)),
           IF external \/ HostOf(link.url) = HostOf(req.url) THEN "pass" ELSE "reject" >>

FirstOutcome(outcomes) ==
    IF \A r \in 1..Len(outcomes) : outcomes[r] = "pass" THEN "pass"
    ELSE outcomes[CHOOSE r \in 1..Len(outcomes) :
                     /\ outcomes[r] # "pass"
                     /\ \A q \in 1..(r - 1) : outcomes[q] = "pass"]

\* C9: of the links apply_link_filters evaluates, it accepts exactly those
\* that pass all five rules (text length, URL patterns, text patterns,
\* exclude patterns, same host unless includeExternal), taken in that
\* order: a rule is consulted only if the earlier ones pass, so a malformed
\* pattern fails the call only at the first link that reaches it.  The
\* accepted links keep their input order; absent filters are minTextLength
\* 0 and includeExternal false.
C9_FiveRulesInOrder ==
    (DiscoverDone /\ Parsed /\ Extracted.err = "") =>
        LET links == Extracted.links
            fl == Filtered
            outcome == Tabulated([i \in 1..Len(links) |->
                                     FirstOutcome(RuleOutcomes(links[i]))])
            rank == Tabulated([i \in 1..Len(links) |->
                                  Cardinality({j \in 1..i : outcome[j] = "pass"})])
        IN  /\ fl.err = "" =>
                  /\ \A i \in 1..fl.evaluated : outcome[i] # "error"
                  /\ Len(fl.filtered) =
                        IF fl.evaluated = 0 THEN 0 ELSE rank[fl.evaluated]
                  /\ \A i \in 1..fl.evaluated :
                        outcome[i] = "pass" => fl.filtered[rank[i]] = links[i]
            /\ fl.err # "" =>
                  /\ fl.evaluated \in 1..Len(links)
                  /\ outcome[fl.evaluated] = "error"
                  /\ \A i \in 1..(fl.evaluated - 1) : outcome[i] # "error"
                  /\ resp.status = 500

\* A request with a minimum text length, URL, text and exclude patterns
\* and no external links, answered with some of the page's links
C9_Witness ==
    /\ DiscoverDone /\ crawl.page.kind = "news" /\ Parsed
    /\ ~req.filters.none /\ req.filters.minTextLength = 5
    /\ ~req.selectors.none /\ req.selectors.urlPatterns # <<>>
    /\ req.selectors.textPatterns # <<>>
    /\ req.filters.excludePatterns # <<>>
    /\ ~req.filters.includeExternal
    /\ resp.status = 200
    /\ resp.body.linksFound > 0
    /\ resp.body.linksFound < resp.body.metadata.totalLinksOnPage

\* The title the chain gives, as stated: the first non-empty text among
\* the configured selectors' first matches; then, if fallbackToMeta is
\* true or no title selectors are configured, the first non-empty of h1,
\* og:title and title; None otherwise.
FirstNonEmpty(texts) ==
    IF \A i \in 1..Len(texts) : texts[i] = <<>> THEN None
    ELSE texts[CHOOSE i \in 1..Len(texts) :
                  texts[i] # <<>> /\ \A j \in 1..(i - 1) : texts[j] = <<>>]

ChainTitle ==
    LET soup == CrawlSoup
        configured == ~req.extract.none /\ ~req.extract.title.none
        selectors == IF configured THEN req.extract.title.selectors ELSE <<>>
        TextAt(e) == IF e = 0 THEN <<>> ELSE CandidateTitle(soup, e)
        bySelector == [i \in 1..Len(selectors) |->
                          TextAt(select_one(soup, selectors[i]).node)]
        byFallback == << TextAt(find(soup, "h1")),
                         TextAt(find_meta(soup, "property", <<"og:title">>)),
                         TextAt(find(soup, "title")) >>
        fallback == ~configured \/ req.extract.title.fallbackToMeta
                    \/ selectors = <<>>
    IN  FirstNonEmpty(bySelector \o (IF fallback THEN byFallback ELSE <<>>))

\* C10: the title of a scrape response is the first non-empty result of
\* the chain: the configured title selectors in order, then (if
\* fallbackToMeta is true or no title selectors are configured) h1,
\* og:title and title; null otherwise (an empty title is taken for null).
C10_TitleChain ==
    (ScrapeDone /\ resp.status = 200 /\ ~MalformedRequest) =>
        \/ resp.body.data.title = ChainTitle
        \/ Falsy(resp.body.data.title) /\ Falsy(ChainTitle)

\* The request configures content extraction
ContentConfigured == ~req.extract.none /\ ~req.extract.content.none

\* The elements that the removeSelectors of the request destroy
RemovedElements == remove_unwanted(req, CrawlSoup).soup.gone

\* The content holds the text of element e of the fetched page
HoldsTextOf(content, e) ==
    LET t == Strip(CrawlSoup.nodes[e].text)
    IN  t # <<>> /\ Contains(content, t)

\* C11: with removeSelectors given, the content of a successful scrape
\* holds none of the removed elements, whether it was rendered from a
\* matched content selector or produced by the fallback, in every format.
C11_RemovedLeaveNoTrace ==
    (ScrapeDone /\ resp.status = 200 /\ ContentConfigured
        /\ req.extract.content.removeSelectors # <<>>) =>
        \A e \in RemovedElements : ~HoldsTextOf(resp.body.data.content, e)

\* The working document at content selection: the page after the removals
WorkingSoup == remove_unwanted(req, CrawlSoup).soup

\* The index of the first of the selectors, in list order, that has a match
\* in the document; 0 if none has
RECURSIVE FirstMatching(_, _, _)
FirstMatching(soup, selectors, i) ==
    IF i > Len(selectors) THEN 0
    ELSE IF select_one(soup, selectors[i]).node # 0 THEN i
    ELSE FirstMatching(soup, selectors, i + 1)

\* What the match e of a content selector renders to, as stated: its
\* serialized markup, its stripped text, or the whole-page markdown
Rendered(soup, e, format) ==
    IF format = "html" THEN Serialize(soup, e)
    ELSE IF format = "text" THEN get_text(soup, e)
    ELSE PageMarkdown(crawl.page)

\* The content of the response for extracted content c
Returned(c) == process_content(c, content_format(req), Processing(req)).content

\* C12: with content selectors given, a successful scrape uses the first
\* selector in list order that has a match: the content is that element's
\* serialized markup (html) or stripped text (text), or the whole-page
\* markdown of the no-selector case (markdown), and extractionMethod names
\* exactly that selector.
C12_FirstMatchingSelector ==
    (ScrapeDone /\ resp.status = 200 /\ ContentConfigured) =>
        LET soup == WorkingSoup
            selectors == req.extract.content.selectors
            k == FirstMatching(soup, selectors, 1)
        IN  k # 0 =>
              /\ resp.body.metadata.extractionMethod = CssMethod(selectors[k])
              /\ resp.body.data.content =
                    Returned(Rendered(soup, select_one(soup, selectors[k]).node,
                                      content_format(req)))

\* URL resolution as stated: an href with a scheme is returned unchanged,
\* any other is joined against the base URL
ResolvedAsStated(href, base_url) ==
    IF HasScheme(href) THEN href ELSE urljoin(base_url, href)

\* C13: link selection resolves each href to itself exactly when it has a
\* scheme and to its join against the base URL otherwise, after dropping
\* the elements with an empty or missing href; so every url of a selected
\* link and of a discover response is absolute.
C13_ResolvedAbsolute ==
    (DiscoverDone /\ Parsed /\ Selected.err = "") =>
        LET soup == CrawlSoup
            els == Selected.nodes
            links == Extracted.links
            out == resp.body.links
            Linked(e) == /\ HasAttr(soup.nodes[e], "href")
                         /\ soup.nodes[e].attrs.href # <<>>
        IN  /\ \A k \in 1..Len(els) :
                  Linked(els[k]) =>
                      resolve(soup.nodes[els[k]].attrs.href, req.url) =
                          ResolvedAsStated(soup.nodes[els[k]].attrs.href, req.url)
            /\ \A i \in 1..Len(links) :
                  Linked(links[i].element) /\ HasScheme(links[i].url)
            /\ resp.status = 200 =>
                  \A i \in 1..Len(out) : HasScheme(out[i].url)

\* The configured content selectors (none without a content configuration)
ContentSelectors ==
    IF ContentConfigured THEN req.extract.content.selectors ELSE <<>>

\* C14: the extractionMethod of a successful scrape tells how the content
\* was obtained: "css:S" when the content was rendered from the match of
\* the content selector S, "default" when it came from the whole-page
\* fallback; title extraction never sets it, and it never names a content
\* selector whose empty result was replaced by the fallback.
C14_MethodDescribesContent ==
    (ScrapeDone /\ resp.status = 200) =>
        LET soup == WorkingSoup
            k == FirstMatching(soup, ContentSelectors, 1)
            rendered == IF k = 0 THEN <<>>
                        ELSE Rendered(soup, select_one(soup, ContentSelectors[k]).node,
                                      content_format(req))
        IN  resp.body.metadata.extractionMethod =
                IF rendered # <<>> THEN CssMethod(ContentSelectors[k])
                ELSE <<"default">>
====
